---- MODULE Spec2Model ----
(***************************************************************************)
(* Order confirmation and nth-order reward issuance of the Uniblox store.  *)
(*                                                                         *)
(* The persistent store is the set of MongoDB collections (StoreSettings,  *)
(* Order, DiscountCode, Product, Cart).  Every database call of a handler  *)
(* is atomic; a handler that awaits several calls is a process whose       *)
(* position is kept in procs, so that other requests interleave between    *)
(* its calls.  Amounts are integers in paise (1/100 of a currency unit).   *)
(***************************************************************************)
EXTENDS Integers, Sequences, FiniteSets, TLC

\* ------------------------------------------------------------------ bounds
MaxRequests == 2
MaxBurst == 3
MaxPatches == 1
MaxQty == 1
MaxQuotes == 2
MaxLog == 3
MaxCodeOps == 2
MaxNow == 2
MaxPaise == 100

\* --------------------------------------------------------------- constants
DefaultNthOrderDiscount == 5
DefaultDiscountPercent == 10

Null == "null"
Users == {"u1", "u2"}
Products == {"p1"}
Procs == 1..(IF MaxBurst > MaxRequests THEN MaxBurst ELSE MaxRequests)

\* Catalog prices in paise when the store opens.
ProductPrice == [p \in Products |-> 33300]

\* Stock levels the catalog can start with.
InitStocks == {[p \in Products |-> 1]}

\* Reward intervals the store may be configured with at the start, and the
\* ones an administrator submits.
InitNthChoices == {1, 2, DefaultNthOrderDiscount}
NthChoices == {2}

VARIABLES
  storeSettings,   \* StoreSettings collection: sequence of documents
  orders,          \* Order collection: set of documents
  discountCodes,   \* DiscountCode collection: sequence of documents
  stock,           \* Product.stock per product
  isActive,        \* Product.isActive per product
  carts,           \* Cart collection: at most one document per user
  quotes,          \* quote returned by POST /api/checkout, held by the client
  remoteOrders,    \* payment gateway: number of remote orders created
  procs,           \* PUT /api/checkout requests in flight
  now,             \* the clock read by new Date()
  started,         \* number of confirmation requests received so far
  patches,         \* number of settings updates received so far
  nthChanged,      \* history: has nthOrderDiscount been changed by an admin
  log,             \* responses of the cart and discount handlers, in order
  price,           \* Product.price per product
  cached,          \* connection.ts: the module-level cache {conn, promise}
  attempts,        \* mongoose.connect() promises created so far, by state
  jobs,            \* microtask queue of the server process
  waiters,         \* continuations registered on a pending promise
  calls            \* position of each connectDB() call

connVars == <<cached, attempts, jobs, waiters, calls>>

vars == <<storeSettings, orders, discountCodes, stock, isActive, carts,
          quotes, remoteOrders, procs, now, started, patches, nthChanged,
          log, price, connVars>>

dbVars == <<storeSettings, orders, discountCodes, stock, isActive, carts>>

\* connectDB() calls made by the handlers of one server process.
Callers == {"c1", "c2", "c3", "c4"}

\* The cache of connection.ts before any call: {conn: null, promise: null}.
\* 0 stands for null; a promise is named by its index in attempts.
InitConn ==
  /\ cached = [conn |-> 0, promise |-> 0]
  /\ attempts = <<>>
  /\ jobs = <<>>
  /\ waiters = <<>>
  /\ calls = [c \in Callers |-> "idle"]

\* ----------------------------------------------------------- pure helpers
\* Amounts are JavaScript numbers (IEEE 754 binary64).  An amount of c paise
\* stands for the double nearest to c / 100.  The arithmetic of
\* calculateDiscount is carried out on doubles [m, e] of value m * 2^e, m a
\* natural number of at most MantissaBits bits held as little-endian limbs
\* of LimbBits bits, so that no intermediate value exceeds 31 bits.
LimbBits == 15
Base == 32768
MantissaBits == 53

RECURSIVE Pow2(_)
Pow2(n) == IF n <= 0 THEN 1 ELSE 2 * Pow2(n - 1)

RECURSIVE BitLength(_)
BitLength(n) == IF n = 0 THEN 0 ELSE 1 + BitLength(n \div 2)

RECURSIVE BigFromInt(_)
BigFromInt(n) ==
  IF n = 0 THEN <<>> ELSE <<n % Base>> \o BigFromInt(n \div Base)

RECURSIVE BigToInt(_)
BigToInt(a) == IF a = <<>> THEN 0 ELSE Head(a) + Base * BigToInt(Tail(a))

\* Drop the leading zero limbs.
RECURSIVE BigNorm(_)
BigNorm(a) ==
  IF a = <<>> THEN <<>>
  ELSE IF a[Len(a)] = 0 THEN BigNorm(SubSeq(a, 1, Len(a) - 1)) ELSE a

RECURSIVE BigMulSmall(_, _, _)
BigMulSmall(a, k, carry) ==
  IF a = <<>> THEN BigFromInt(carry)
  ELSE LET t == Head(a) * k + carry
       IN <<t % Base>> \o BigMulSmall(Tail(a), k, t \div Base)

RECURSIVE BigAdd(_, _, _)
BigAdd(a, b, carry) ==
  IF a = <<>> /\ b = <<>> THEN BigFromInt(carry)
  ELSE LET x == IF a = <<>> THEN 0 ELSE Head(a)
           y == IF b = <<>> THEN 0 ELSE Head(b)
           t == x + y + carry
       IN <<t % Base>> \o BigAdd(IF a = <<>> THEN <<>> ELSE Tail(a),
                                 IF b = <<>> THEN <<>> ELSE Tail(b),
                                 t \div Base)

\* Quotient and remainder of a by the small divisor d.
RECURSIVE BigDivRem(_, _)
BigDivRem(a, d) ==
  IF a = <<>> THEN [q |-> <<>>, r |-> 0]
  ELSE LET hi == BigDivRem(Tail(a), d)
           cur == hi.r * Base + Head(a)
       IN [q |-> BigNorm(<<cur \div d>> \o hi.q), r |-> cur % d]

BigBitLength(a) ==
  IF a = <<>> THEN 0 ELSE LimbBits * (Len(a) - 1) + BitLength(a[Len(a)])

BigShiftLeft(a, s) ==
  IF a = <<>> THEN <<>>
  ELSE [i \in 1..(s \div LimbBits) |-> 0]
         \o BigMulSmall(a, Pow2(s % LimbBits), 0)

\* floor(a / 2^s)
BigShiftRight(a, s) ==
  LET n == s \div LimbBits
      kept == IF n >= Len(a) THEN <<>> ELSE SubSeq(a, n + 1, Len(a))
  IN BigDivRem(kept, Pow2(s % LimbBits)).q

\* The double nearest to (n / d) * 2^e0, ties to even: the result of one
\* floating-point operation whose exact value is that quotient.
RoundToDouble(n, d, e0) ==
  IF BigNorm(n) = <<>> THEN [m |-> <<>>, e |-> 0]
  ELSE LET want == MantissaBits + 3 + BitLength(d) - BigBitLength(n)
           t == IF want > 0 THEN want ELSE 0
           first == BigDivRem(BigShiftLeft(n, t), d)
           sh == BigBitLength(first.q) - MantissaBits
           second == BigDivRem(first.q, Pow2(sh))
           half == Pow2(sh - 1)
           odd == second.q[1] % 2 = 1
           up == \/ second.r > half
                 \/ second.r = half /\ (first.r # 0 \/ odd)
           m == IF up THEN BigAdd(second.q, <<1>>, 0) ELSE second.q
       IN IF BigBitLength(m) > MantissaBits
          THEN [m |-> BigDivRem(m, 2).q, e |-> e0 - t + sh + 1]
          ELSE [m |-> m, e |-> e0 - t + sh]

\* The number an amount of c paise is held as.
FromPaise(c) == RoundToDouble(BigFromInt(c), 100, 0)

\* x * k and x / d for a double x and small integers k, d.
Times(x, k) == RoundToDouble(BigMulSmall(x.m, k, 0), 1, x.e)
Over(x, d) == RoundToDouble(x.m, d, x.e)

\* Math.round(x) = floor(x + 0.5), for 0 <= x < 2^52.
MathRound(x) ==
  IF x.m = <<>> THEN 0
  ELSE LET k == -x.e - 1
       IN BigToInt(BigShiftRight(BigAdd(x.m, BigShiftLeft(<<1>>, k), 0),
                                 k + 1))

\* Math.round(((subtotal * discountPercent) / 100) * 100) / 100, subtotal and
\* result in paise: the last division yields the double nearest to
\* (rounded integer) / 100, which is that number of paise.
calculateDiscount(subtotal, discountPercent) ==
  MathRound(Times(Over(Times(FromPaise(subtotal), discountPercent), 100),
                  100))

RECURSIVE SumItems(_)
SumItems(items) ==
  IF items = <<>> THEN 0
  ELSE Head(items).price * Head(items).quantity + SumItems(Tail(items))

\* A Date field that is null or undefined.
NoDate == -1

\* isExpired without the null test.
isExpired_NullExpired(date) == now > date

\* if (!date) return false; return new Date() > new Date(date);
isExpired(date) == IF date = NoDate THEN FALSE ELSE now > date

getExpiryDate(days) == now + days

\* orderNumber % settings.nthOrderDiscount === 0
IsNthOrder_Shifted(orderNumber, n) == (orderNumber + 1) % n = 0

IsNthOrder(orderNumber, n) == orderNumber % n = 0

\* Index of the document holding code c, or 0.
CodeIndex(c) ==
  IF \E i \in 1..Len(discountCodes) : discountCodes[i].code = c
  THEN CHOOSE i \in 1..Len(discountCodes) : discountCodes[i].code = c
  ELSE 0

\* A search that never finds the line.
FindItemIndex_NeverFound(items, p) == 0

\* Index of the cart line for product p, or 0 (Array.findIndex).
FindItemIndex(items, p) ==
  IF \E i \in 1..Len(items) : items[i].product = p
  THEN CHOOSE i \in 1..Len(items) :
         items[i].product = p /\ \A j \in 1..(i - 1) : items[j].product # p
  ELSE 0

DefaultSettings ==
  [nthOrderDiscount |-> DefaultNthOrderDiscount,
   discountPercent |-> DefaultDiscountPercent,
   totalOrders |-> 0,
   defaultDiscountExpiry |-> 0]

\* A request body with every field absent.
NoBody ==
  [razorpayOrderId |-> 0, razorpayPaymentId |-> 0, items |-> <<>>,
   subtotal |-> 0, discountCode |-> 0, discountPercent |-> 0,
   discountAmount |-> 0, total |-> 0, userId |-> Null]

NoCart == [exists |-> FALSE, items |-> <<>>, appliedDiscount |-> 0]

\* History kept with a request: the stock levels it found on arrival.
NoPre == [p \in Products |-> 0]

IdleProc ==
  [pc |-> "idle", body |-> NoBody, settings |-> DefaultSettings, sid |-> 0,
   orderNumber |-> 0, idx |-> 0, resp |-> 0, newDiscountCode |-> 0,
   pre |-> NoPre]

\* -------------------------------------------------------------------- Init
Init ==
  /\ storeSettings \in
       {<<[DefaultSettings EXCEPT !.nthOrderDiscount = n]>> :
          n \in InitNthChoices}
  /\ orders = {}
  /\ discountCodes = <<[code |-> 1, discountPercent |-> 10, isUsed |-> FALSE,
                        usedBy |-> Null, usedAt |-> NoDate,
                        generatedForOrder |-> 0, expiresAt |-> NoDate]>>
  /\ stock \in InitStocks
  /\ isActive = [p \in Products |-> TRUE]
  /\ price = ProductPrice
  /\ carts = [u \in Users |-> NoCart]
  /\ quotes = [u \in Users |-> <<>>]
  /\ remoteOrders = 0
  /\ procs = [p \in Procs |-> IdleProc]
  /\ now = 0
  /\ started = 0
  /\ patches = 0
  /\ nthChanged = FALSE
  /\ InitConn
  /\ log = <<>>

\* ---------------------------------------------------------- cart handlers
\* POST /api/cart: add quantity units of productId to the caller's cart.
AddToCart(u, productId, quantity) ==
  /\ isActive[productId]
  /\ stock[productId] >= quantity
  /\ LET cart == IF carts[u].exists THEN carts[u]
                 ELSE [exists |-> TRUE, items |-> <<>>, appliedDiscount |-> 0]
         existingItemIndex == FindItemIndex(cart.items, productId)
     IN IF existingItemIndex > 0
        THEN LET newQuantity ==
                   cart.items[existingItemIndex].quantity + quantity
             IN /\ newQuantity <= stock[productId]
                /\ carts' = [carts EXCEPT ![u] =
                     [cart EXCEPT !.items[existingItemIndex].quantity =
                                    newQuantity]]
        ELSE carts' = [carts EXCEPT ![u] =
               [cart EXCEPT !.items = Append(cart.items,
                  [product |-> productId, quantity |-> quantity,
                   priceAtAdd |-> price[productId]])]]
  /\ UNCHANGED <<storeSettings, orders, discountCodes, stock, isActive, quotes,
                 remoteOrders, procs, now, started, patches, nthChanged, log,
                 price, connVars>>

\* POST /api/cart/discount: attach an unused, unexpired code to the cart.
ApplyDiscount(u, code) ==
  /\ CodeIndex(code) > 0
  /\ ~discountCodes[CodeIndex(code)].isUsed
  /\ ~isExpired(discountCodes[CodeIndex(code)].expiresAt)
  /\ carts[u].exists
  /\ Len(carts[u].items) > 0
  /\ carts' = [carts EXCEPT ![u].appliedDiscount = code]
  /\ UNCHANGED <<storeSettings, orders, discountCodes, stock, isActive, quotes,
                 remoteOrders, procs, now, started, patches, nthChanged, log,
                 price, connVars>>

\* ------------------------------------------------------- POST /api/checkout
\* The cart lines priced at the price stored when the line was added.
QuoteItems_PriceAtAdd(cart) ==
  [i \in 1..Len(cart.items) |->
     [product |-> cart.items[i].product,
      price |-> cart.items[i].priceAtAdd,
      quantity |-> cart.items[i].quantity]]

\* validItems of the quote: the cart lines with the product's current price.
QuoteItems(cart) ==
  [i \in 1..Len(cart.items) |->
     [product |-> cart.items[i].product,
      price |-> price[cart.items[i].product],
      quantity |-> cart.items[i].quantity]]

\* The order payload POST /api/checkout answers with for this cart.
QuoteOf(u, cart, razorpayOrderId) ==
  LET validItems == QuoteItems(cart)
      subtotal == SumItems(validItems)
      ci == CodeIndex(cart.appliedDiscount)
      applies == /\ cart.appliedDiscount # 0
                 /\ ci > 0
                 /\ ~discountCodes[ci].isUsed
                 /\ ~isExpired(discountCodes[ci].expiresAt)
      discountPercent == IF applies THEN discountCodes[ci].discountPercent
                         ELSE 0
      discountAmount == IF applies
                        THEN calculateDiscount(subtotal, discountPercent)
                        ELSE 0
  IN [razorpayOrderId |-> razorpayOrderId,
      items |-> validItems,
      subtotal |-> subtotal,
      discountCode |-> IF applies THEN discountCodes[ci].code ELSE 0,
      discountPercent |-> discountPercent,
      discountAmount |-> discountAmount,
      total |-> subtotal - discountAmount,
      userId |-> u]

CheckoutQuote(u) ==
  /\ carts[u].exists
  /\ Len(carts[u].items) > 0
  /\ \A i \in 1..Len(carts[u].items) :
       /\ isActive[carts[u].items[i].product]
       /\ carts[u].items[i].quantity <= stock[carts[u].items[i].product]
  /\ remoteOrders < MaxQuotes
  /\ remoteOrders' = remoteOrders + 1
  /\ quotes' = [quotes EXCEPT ![u] = <<QuoteOf(u, carts[u], remoteOrders + 1)>>]
  /\ UNCHANGED <<dbVars, procs, now, started, patches, nthChanged, log, price,
                 connVars>>

\* -------------------------------------------------------- PUT /api/checkout
\* The counter of the document findOne() returns, 0 when there is none.
TotalOrders == IF storeSettings = <<>> THEN 0 ELSE storeSettings[1].totalOrders

UsedCodes == {i \in 1..Len(discountCodes) : discountCodes[i].isUsed}

\* Mongoose validation of the document handed to Order.create.
OrderValid(body) ==
  /\ body.userId # Null
  /\ Len(body.items) > 0
  /\ \A i \in 1..Len(body.items) :
       body.items[i].quantity >= 1 /\ body.items[i].price >= 0
  /\ body.subtotal >= 0
  /\ body.discountPercent >= 0 /\ body.discountPercent <= 100
  /\ body.discountAmount >= 0
  /\ body.total >= 0

OrderDoc(body, orderNumber) ==
  [user |-> body.userId, orderNumber |-> orderNumber, items |-> body.items,
   subtotal |-> body.subtotal, discountCode |-> body.discountCode,
   discountPercent |-> body.discountPercent,
   discountAmount |-> body.discountAmount, total |-> body.total,
   paymentId |-> body.razorpayPaymentId]

\* Bodies a client can send: the quote it holds together with the payment
\* id the gateway issued for that remote order, the same without the payment
\* id, or the same with an empty item list.
HonestBody(u) ==
  [razorpayOrderId |-> quotes[u][1].razorpayOrderId,
   razorpayPaymentId |-> quotes[u][1].razorpayOrderId,
   items |-> quotes[u][1].items,
   subtotal |-> quotes[u][1].subtotal,
   discountCode |-> quotes[u][1].discountCode,
   discountPercent |-> quotes[u][1].discountPercent,
   discountAmount |-> quotes[u][1].discountAmount,
   total |-> quotes[u][1].total,
   userId |-> quotes[u][1].userId]

RequestBodies ==
  UNION {{HonestBody(u),
          [HonestBody(u) EXCEPT !.razorpayPaymentId = 0],
          [HonestBody(u) EXCEPT !.items = <<>>]} :
           u \in {x \in Users : quotes[x] # <<>>}}

\* Request received: payment details checked, then getStoreSettings() issues
\* StoreSettings.findOne().  The p-th request to arrive is process p.
PutRequest(p, body) ==
  /\ p = started + 1
  /\ started' = started + 1
  /\ IF body.razorpayPaymentId = 0 \/ body.razorpayOrderId = 0
     THEN procs' = [procs EXCEPT ![p] =
            [IdleProc EXCEPT !.pc = "done", !.body = body, !.resp = 400,
                             !.pre = stock]]
     ELSE IF storeSettings = <<>>
     THEN procs' = [procs EXCEPT ![p] =
            [IdleProc EXCEPT !.pc = "createSettings", !.body = body,
                             !.pre = stock]]
     ELSE procs' = [procs EXCEPT ![p] =
            [IdleProc EXCEPT !.pc = "save", !.body = body, !.pre = stock,
                             !.settings = storeSettings[1], !.sid = 1]]
  /\ UNCHANGED <<dbVars, quotes, remoteOrders, now, patches, nthChanged, log,
                 price, connVars>>

\* getStoreSettings(): no document was found, StoreSettings.create().
PutCreateSettings(p) ==
  /\ procs[p].pc = "createSettings"
  /\ storeSettings' = Append(storeSettings, DefaultSettings)
  /\ procs' = [procs EXCEPT ![p].pc = "save",
                            ![p].settings = DefaultSettings,
                            ![p].sid = Len(storeSettings) + 1]
  /\ UNCHANGED <<orders, discountCodes, stock, isActive, carts, quotes,
                 remoteOrders, now, started, patches, nthChanged, log, price,
                 connVars>>

\* settings.totalOrders += 1; orderNumber = settings.totalOrders;
\* settings.save() writes the modified path of the loaded document.
PutSaveCounter(p) ==
  /\ procs[p].pc = "save"
  /\ LET orderNumber == procs[p].settings.totalOrders + 1
     IN /\ storeSettings' =
             [storeSettings EXCEPT ![procs[p].sid].totalOrders = orderNumber]
        /\ procs' = [procs EXCEPT ![p].pc = "create",
                                  ![p].settings.totalOrders = orderNumber,
                                  ![p].orderNumber = orderNumber]
  /\ UNCHANGED <<orders, discountCodes, stock, isActive, carts, quotes,
                 remoteOrders, now, started, patches, nthChanged, log, price,
                 connVars>>

\* Order.create() without the unique index on orderNumber.
PutCreateOrder_NoUniqueIndex(p) ==
  /\ procs[p].pc = "create"
  /\ IF OrderValid(procs[p].body)
     THEN /\ orders' = orders \cup
                         {OrderDoc(procs[p].body, procs[p].orderNumber)}
          /\ procs' = [procs EXCEPT ![p].pc = "redeem"]
     ELSE /\ orders' = orders
          /\ procs' = [procs EXCEPT ![p].pc = "done", ![p].resp = 500]
  /\ UNCHANGED <<storeSettings, discountCodes, stock, isActive, carts, quotes,
                 remoteOrders, now, started, patches, nthChanged, log, price,
                 connVars>>

\* Order.create(): schema validation, then insert under the unique index on
\* orderNumber; a failure is caught and answered with 500.
PutCreateOrder(p) ==
  /\ procs[p].pc = "create"
  /\ IF /\ OrderValid(procs[p].body)
        /\ \A o \in orders : o.orderNumber # procs[p].orderNumber
     THEN /\ orders' = orders \cup
                         {OrderDoc(procs[p].body, procs[p].orderNumber)}
          /\ procs' = [procs EXCEPT ![p].pc = "redeem"]
     ELSE /\ orders' = orders
          /\ procs' = [procs EXCEPT ![p].pc = "done", ![p].resp = 500]
  /\ UNCHANGED <<storeSettings, discountCodes, stock, isActive, carts, quotes,
                 remoteOrders, now, started, patches, nthChanged, log, price,
                 connVars>>

\* if (discountCode) DiscountCode.findOneAndUpdate({code}, {isUsed: true...}).
PutRedeem(p) ==
  /\ procs[p].pc = "redeem"
  /\ LET ci == CodeIndex(procs[p].body.discountCode)
     IN IF procs[p].body.discountCode # 0 /\ ci > 0
        THEN discountCodes' = [discountCodes EXCEPT
               ![ci].isUsed = TRUE,
               ![ci].usedBy = procs[p].body.userId,
               ![ci].usedAt = now]
        ELSE discountCodes' = discountCodes
  /\ procs' = [procs EXCEPT ![p].pc = "stock", ![p].idx = 1]
  /\ UNCHANGED <<storeSettings, orders, stock, isActive, carts, quotes,
                 remoteOrders, now, started, patches, nthChanged, log, price,
                 connVars>>

\* One iteration of the loop: Product.findByIdAndUpdate($inc stock).
PutDecrementStock(p) ==
  /\ procs[p].pc = "stock"
  /\ procs[p].idx <= Len(procs[p].body.items)
  /\ LET item == procs[p].body.items[procs[p].idx]
     IN stock' = [stock EXCEPT ![item.product] = @ - item.quantity]
  /\ procs' = [procs EXCEPT ![p].idx = @ + 1]
  /\ UNCHANGED <<storeSettings, orders, discountCodes, isActive, carts, quotes,
                 remoteOrders, now, started, patches, nthChanged, log, price,
                 connVars>>

\* Cart.updateMany({}, {items: [], appliedDiscount: null}): every cart.
PutClearCart_AllCarts(p) ==
  /\ procs[p].pc = "stock"
  /\ procs[p].idx > Len(procs[p].body.items)
  /\ carts' = [u \in Users |->
                IF carts[u].exists
                THEN [carts[u] EXCEPT !.items = <<>>, !.appliedDiscount = 0]
                ELSE carts[u]]
  /\ procs' = [procs EXCEPT ![p].pc = "mint", ![p].idx = 0]
  /\ UNCHANGED <<storeSettings, orders, discountCodes, stock, isActive, quotes,
                 remoteOrders, now, started, patches, nthChanged, log, price,
                 connVars>>

\* Cart.findOneAndUpdate({user}, {items: [], appliedDiscount: null}).
PutClearCart(p) ==
  /\ procs[p].pc = "stock"
  /\ procs[p].idx > Len(procs[p].body.items)
  /\ LET u == procs[p].body.userId
     IN carts' = IF carts[u].exists
                 THEN [carts EXCEPT ![u].items = <<>>,
                                    ![u].appliedDiscount = 0]
                 ELSE carts
  /\ procs' = [procs EXCEPT ![p].pc = "mint", ![p].idx = 0]
  /\ UNCHANGED <<storeSettings, orders, discountCodes, stock, isActive, quotes,
                 remoteOrders, now, started, patches, nthChanged, log, price,
                 connVars>>

\* Reward generation for every nth order, then the 200 response.
PutMint(p) ==
  /\ procs[p].pc = "mint"
  /\ IF IsNthOrder(procs[p].orderNumber, procs[p].settings.nthOrderDiscount)
     THEN LET code == Len(discountCodes) + 1
              expiresAt ==
                IF procs[p].settings.defaultDiscountExpiry # 0
                THEN getExpiryDate(procs[p].settings.defaultDiscountExpiry)
                ELSE NoDate
          IN /\ discountCodes' = Append(discountCodes,
                  [code |-> code,
                   discountPercent |-> procs[p].settings.discountPercent,
                   isUsed |-> FALSE, usedBy |-> Null, usedAt |-> NoDate,
                   generatedForOrder |-> procs[p].orderNumber,
                   expiresAt |-> expiresAt])
             /\ procs' = [procs EXCEPT ![p].pc = "done", ![p].resp = 200,
                                       ![p].newDiscountCode = code]
     ELSE /\ discountCodes' = discountCodes
          /\ procs' = [procs EXCEPT ![p].pc = "done", ![p].resp = 200]
  /\ UNCHANGED <<storeSettings, orders, stock, isActive, carts, quotes,
                 remoteOrders, now, started, patches, nthChanged, log, price,
                 connVars>>

\* ------------------------------------------------ PATCH /api/admin/settings
\* Values an administrator submits; Undefined stands for a field left out.
Undefined == -1
PatchNthChoices == {Undefined} \cup NthChoices
PatchPercentChoices == {Undefined, 25}
PatchExpiryChoices == {Undefined, 1}

\* The bodies submitted: at most one of the three fields is given.
PatchBodies ==
  {b \in PatchNthChoices \X PatchPercentChoices \X PatchExpiryChoices :
     Cardinality({i \in 1..3 : b[i] # Undefined}) <= 1}

\* getStoreSettings(), assignment of the submitted fields, settings.save():
\* save() writes the modified paths only, so totalOrders is never written.
AdminPatchSettings(nthOrderDiscount, discountPercent, defaultDiscountExpiry) ==
  /\ patches' = patches + 1
  /\ LET docs == IF storeSettings = <<>> THEN <<DefaultSettings>>
                 ELSE storeSettings
         old == docs[1]
         new == [old EXCEPT
                   !.nthOrderDiscount =
                      IF nthOrderDiscount # Undefined THEN nthOrderDiscount
                      ELSE @,
                   !.discountPercent =
                      IF discountPercent # Undefined THEN discountPercent
                      ELSE @,
                   !.defaultDiscountExpiry =
                      IF defaultDiscountExpiry # Undefined
                      THEN defaultDiscountExpiry ELSE @]
     IN /\ storeSettings' = [docs EXCEPT ![1] = new]
        /\ nthChanged' =
             (nthChanged \/ new.nthOrderDiscount # old.nthOrderDiscount)
  /\ UNCHANGED <<orders, discountCodes, stock, isActive, carts, quotes,
                 remoteOrders, procs, now, started, log, price, connVars>>

\* -------------------------------------------------------------------- Next
Next ==
  \/ \E u \in Users, productId \in Products, quantity \in 1..MaxQty :
       AddToCart(u, productId, quantity)
  \/ \E u \in Users, code \in 1..Len(discountCodes) : ApplyDiscount(u, code)
  \/ \E u \in Users : CheckoutQuote(u)
  \/ \E p \in 1..MaxRequests, body \in RequestBodies : PutRequest(p, body)
  \/ \E p \in Procs : PutSaveCounter(p)
  \/ \E p \in Procs : PutCreateOrder(p)
  \/ \E p \in Procs : PutRedeem(p)
  \/ \E p \in Procs : PutDecrementStock(p)
  \/ \E p \in Procs : PutClearCart(p)
  \/ \E p \in Procs : PutMint(p)
  \/ /\ patches < MaxPatches
     /\ \E b \in PatchBodies : AdminPatchSettings(b[1], b[2], b[3])

Spec == Init /\ [][Next]_vars

\* ------------------------------------------------------------ settlements
\* The store once u1 has put a product in the cart, applied the code and
\* asked for a quote: from here only confirmations and settings updates run.
QuotedCart ==
  [exists |-> TRUE,
   items |-> <<[product |-> "p1", quantity |-> 1,
                priceAtAdd |-> ProductPrice["p1"]]>>,
   appliedDiscount |-> 1]

InitSettle ==
  /\ storeSettings \in
       {<<[DefaultSettings EXCEPT !.nthOrderDiscount = n]>> :
          n \in InitNthChoices}
  /\ orders = {}
  /\ discountCodes = <<[code |-> 1, discountPercent |-> 10, isUsed |-> FALSE,
                        usedBy |-> Null, usedAt |-> NoDate,
                        generatedForOrder |-> 0, expiresAt |-> NoDate]>>
  /\ stock \in InitStocks
  /\ isActive = [p \in Products |-> TRUE]
  /\ price = ProductPrice
  /\ carts = [u \in Users |-> IF u = "u1" THEN QuotedCart ELSE NoCart]
  /\ remoteOrders = 1
  /\ quotes = [u \in Users |->
                 IF u = "u1" THEN <<QuoteOf(u, QuotedCart, 1)>> ELSE <<>>]
  /\ procs = [p \in Procs |-> IdleProc]
  /\ now = 0
  /\ started = 0
  /\ patches = 0
  /\ nthChanged = FALSE
  /\ InitConn
  /\ log = <<>>

\* The steps of the confirmations in flight.
PutStep ==
  \/ \E p \in Procs : PutSaveCounter(p)
  \/ \E p \in Procs : PutCreateOrder(p)
  \/ \E p \in Procs : PutRedeem(p)
  \/ \E p \in Procs : PutDecrementStock(p)
  \/ \E p \in Procs : PutClearCart(p)
  \/ \E p \in Procs : PutMint(p)

PatchStep ==
  /\ patches < MaxPatches
  /\ \E b \in PatchBodies : AdminPatchSettings(b[1], b[2], b[3])

NextSettle ==
  \/ \E p \in 1..MaxRequests, body \in RequestBodies : PutRequest(p, body)
  \/ PutStep
  \/ PatchStep

SpecSettle == InitSettle /\ [][NextSettle]_vars

\* A burst of confirmations of the same quote.
NextBurst ==
  \/ \E p \in 1..MaxBurst, body \in RequestBodies : PutRequest(p, body)
  \/ PutStep
  \/ PatchStep

SpecBurst == InitSettle /\ [][NextBurst]_vars

\* ------------------------------------------------- altered confirmations
\* PUT /api/checkout reads every field from the request body, so a client
\* can send the quote with fields of its own: a lower total, or a lower
\* item price with the subtotal and total that follow from it.
CheapPrice == 100

TamperedBodies ==
  UNION {{[HonestBody(u) EXCEPT !.total = CheapPrice],
          [HonestBody(u) EXCEPT
             !.items = [i \in 1..Len(@) |-> [@[i] EXCEPT !.price = CheapPrice]],
             !.subtotal = CheapPrice * Len(HonestBody(u).items),
             !.discountCode = 0, !.discountPercent = 0,
             !.discountAmount = 0,
             !.total = CheapPrice * Len(HonestBody(u).items)]} :
           u \in {x \in Users : quotes[x] # <<>>}}

\* u1 holds a quote for its cart; u2 has a cart of its own, not quoted.
OtherCart ==
  [exists |-> TRUE,
   items |-> <<[product |-> "p1", quantity |-> 1,
                priceAtAdd |-> ProductPrice["p1"]]>>,
   appliedDiscount |-> 0]

InitTamper ==
  /\ storeSettings \in
       {<<[DefaultSettings EXCEPT !.nthOrderDiscount = n]>> :
          n \in InitNthChoices}
  /\ orders = {}
  /\ discountCodes = <<[code |-> 1, discountPercent |-> 10, isUsed |-> FALSE,
                        usedBy |-> Null, usedAt |-> NoDate,
                        generatedForOrder |-> 0, expiresAt |-> NoDate]>>
  /\ stock \in InitStocks
  /\ isActive = [p \in Products |-> TRUE]
  /\ price = ProductPrice
  /\ carts = [u \in Users |-> IF u = "u1" THEN QuotedCart ELSE OtherCart]
  /\ remoteOrders = 1
  /\ quotes = [u \in Users |->
                 IF u = "u1" THEN <<QuoteOf(u, QuotedCart, 1)>> ELSE <<>>]
  /\ procs = [p \in Procs |-> IdleProc]
  /\ now = 0
  /\ started = 0
  /\ patches = 0
  /\ nthChanged = FALSE
  /\ InitConn
  /\ log = <<>>

NextTamper ==
  \/ \E p \in 1..MaxRequests, body \in RequestBodies \cup TamperedBodies :
       PutRequest(p, body)
  \/ PutStep

SpecTamper == InitTamper /\ [][NextTamper]_vars

\* ------------------------------------------------ cart discount handlers
\* The pricing view GET /api/cart computes from a cart: lines of active
\* products at the current price, and the discount of the applied code when
\* that code is found, unused and not expired.
CartView(cart) ==
  LET validItems ==
        SelectSeq(QuoteItems(cart), LAMBDA item : isActive[item.product])
      subtotal == SumItems(validItems)
      ci == CodeIndex(cart.appliedDiscount)
      applies == /\ cart.appliedDiscount # 0
                 /\ ci > 0
                 /\ ~discountCodes[ci].isUsed
                 /\ ~isExpired(discountCodes[ci].expiresAt)
      discountAmount ==
        IF applies
        THEN calculateDiscount(subtotal, discountCodes[ci].discountPercent)
        ELSE 0
  IN [appliedDiscount |-> cart.appliedDiscount,
      discount |-> IF applies THEN cart.appliedDiscount ELSE 0,
      subtotal |-> subtotal,
      discountAmount |-> discountAmount,
      total |-> subtotal - discountAmount]

\* One entry of log: handler, caller, code named, status and error of the
\* response, and the pricing view of the caller's cart after it.
LogEntry(op, u, code, status, error, cart) ==
  [op |-> op, user |-> u, code |-> code, status |-> status, error |-> error,
   view |-> CartView(cart)]

\* The first failing test of POST /api/cart/discount, "" when none fails.
ApplyError_NoExpiryCheck(u, code) ==
  IF CodeIndex(code) = 0 THEN "invalid"
  ELSE IF discountCodes[CodeIndex(code)].isUsed THEN "used"
  ELSE IF ~carts[u].exists THEN "noCart"
  ELSE IF Len(carts[u].items) = 0 THEN "empty"
  ELSE ""

ApplyError(u, code) ==
  IF CodeIndex(code) = 0 THEN "invalid"
  ELSE IF discountCodes[CodeIndex(code)].isUsed THEN "used"
  ELSE IF isExpired(discountCodes[CodeIndex(code)].expiresAt) THEN "expired"
  ELSE IF ~carts[u].exists THEN "noCart"
  ELSE IF Len(carts[u].items) = 0 THEN "empty"
  ELSE ""

ApplyStatus(error) ==
  IF error = "" THEN 200
  ELSE IF error \in {"invalid", "noCart"} THEN 404
  ELSE 400

\* POST /api/cart/discount with its response.
CartDiscountPost(u, code) ==
  LET error == ApplyError(u, code)
      cart == IF error = "" THEN [carts[u] EXCEPT !.appliedDiscount = code]
              ELSE carts[u]
  IN /\ carts' = [carts EXCEPT ![u] = cart]
     /\ log' = Append(log, LogEntry("applyDiscount", u, code,
                                    ApplyStatus(error), error, cart))
     /\ UNCHANGED <<storeSettings, orders, discountCodes, stock, isActive,
                    quotes, remoteOrders, procs, now, started, patches,
                    nthChanged, price, connVars>>

\* Removal that also rewrites the code document the cart referred to.
CartDiscountDelete_ResetsCode(u) ==
  LET cart == IF carts[u].exists THEN [carts[u] EXCEPT !.appliedDiscount = 0]
              ELSE carts[u]
      ci == CodeIndex(carts[u].appliedDiscount)
  IN /\ carts' = [carts EXCEPT ![u] = cart]
     /\ discountCodes' =
          IF carts[u].appliedDiscount # 0 /\ ci > 0
          THEN [discountCodes EXCEPT
                  ![ci].discountPercent = DefaultDiscountPercent,
                  ![ci].expiresAt = NoDate]
          ELSE discountCodes
     /\ log' = Append(log, LogEntry("removeDiscount", u, 0, 200, "", cart))
     /\ UNCHANGED <<storeSettings, orders, stock, isActive, quotes,
                    remoteOrders, procs, now, started, patches, nthChanged,
                    price, connVars>>

\* DELETE /api/cart/discount: Cart.findOneAndUpdate({user},
\* {appliedDiscount: null}), answered with 200 whether a cart matched or not.
CartDiscountDelete(u) ==
  LET cart == IF carts[u].exists THEN [carts[u] EXCEPT !.appliedDiscount = 0]
              ELSE carts[u]
  IN /\ carts' = [carts EXCEPT ![u] = cart]
     /\ log' = Append(log, LogEntry("removeDiscount", u, 0, 200, "", cart))
     /\ UNCHANGED <<storeSettings, orders, discountCodes, stock, isActive,
                    quotes, remoteOrders, procs, now, started, patches,
                    nthChanged, price, connVars>>

\* The clock advances by one day.
Tick ==
  /\ now < MaxNow
  /\ now' = now + 1
  /\ UNCHANGED <<dbVars, quotes, remoteOrders, procs, started, patches,
                 nthChanged, log, price, connVars>>

\* ------------------------------------------------- /api/admin/discounts
\* The slot of a document removed by findByIdAndDelete.
Deleted ==
  [code |-> 0, discountPercent |-> 0, isUsed |-> FALSE, usedBy |-> Null,
   usedAt |-> NoDate, generatedForOrder |-> 0, expiresAt |-> NoDate]

\* Document ids a request can name: those issued so far and one unknown.
DiscountIds == 1..(Len(discountCodes) + 1)

DiscountFound(id) ==
  id \in 1..Len(discountCodes) /\ discountCodes[id] # Deleted

\* expiryDays an administrator submits: 0 removes the expiry.
DiscountExpiryChoices == {0, 1}

\* POST: a code at the submitted percent and expiry, or at the settings'.
AdminGenerateDiscount(discountPercent, expiryDays) ==
  LET docs == IF storeSettings = <<>> THEN <<DefaultSettings>>
              ELSE storeSettings
      settings == docs[1]
      code == Len(discountCodes) + 1
      expiresAt ==
        IF expiryDays # Undefined THEN getExpiryDate(expiryDays)
        ELSE IF settings.defaultDiscountExpiry # 0
        THEN getExpiryDate(settings.defaultDiscountExpiry)
        ELSE NoDate
  IN /\ storeSettings' = docs
     /\ discountCodes' = Append(discountCodes,
          [code |-> code,
           discountPercent |-> IF discountPercent # Undefined
                               THEN discountPercent
                               ELSE settings.discountPercent,
           isUsed |-> FALSE, usedBy |-> Null, usedAt |-> NoDate,
           generatedForOrder |-> 0, expiresAt |-> expiresAt])
     /\ log' = Append(log, LogEntry("generateDiscount", "admin", code, 200,
                                    "", NoCart))
     /\ UNCHANGED <<orders, stock, isActive, carts, quotes, remoteOrders,
                    procs, now, started, patches, nthChanged, price, connVars>>

\* PATCH: findById, expiresAt set from expiryDays when it is given, save().
AdminPatchDiscount(discountId, expiryDays) ==
  /\ IF DiscountFound(discountId)
     THEN /\ discountCodes' =
               IF expiryDays = Undefined THEN discountCodes
               ELSE [discountCodes EXCEPT ![discountId].expiresAt =
                       IF expiryDays # 0 THEN getExpiryDate(expiryDays)
                       ELSE NoDate]
          /\ log' = Append(log, LogEntry("patchDiscount", "admin",
                                         discountId, 200, "", NoCart))
     ELSE /\ discountCodes' = discountCodes
          /\ log' = Append(log, LogEntry("patchDiscount", "admin",
                                         discountId, 404, "invalid", NoCart))
  /\ UNCHANGED <<storeSettings, orders, stock, isActive, carts, quotes,
                 remoteOrders, procs, now, started, patches, nthChanged, price,
                 connVars>>

\* DELETE: findByIdAndDelete.
AdminDeleteDiscount(discountId) ==
  /\ IF DiscountFound(discountId)
     THEN /\ discountCodes' = [discountCodes EXCEPT ![discountId] = Deleted]
          /\ log' = Append(log, LogEntry("deleteDiscount", "admin",
                                         discountId, 200, "", NoCart))
     ELSE /\ discountCodes' = discountCodes
          /\ log' = Append(log, LogEntry("deleteDiscount", "admin",
                                         discountId, 404, "invalid", NoCart))
  /\ UNCHANGED <<storeSettings, orders, stock, isActive, carts, quotes,
                 remoteOrders, procs, now, started, patches, nthChanged, price,
                 connVars>>

\* --------------------------------------------------- carts and their codes
\* The store after u1 redeemed code 3 with order 1 and put a product in the
\* cart again; codes 1 (no expiry) and 2 (expiring at day 1) are unused, and
\* u2 has either no cart or the empty one GET /api/cart created.
EmptyCart == [exists |-> TRUE, items |-> <<>>, appliedDiscount |-> 0]

InitCart ==
  /\ storeSettings = <<[DefaultSettings EXCEPT !.totalOrders = 1]>>
  /\ orders =
       {[user |-> "u1", orderNumber |-> 1,
         items |-> <<[product |-> "p1", price |-> ProductPrice["p1"],
                      quantity |-> 1]>>,
         subtotal |-> ProductPrice["p1"], discountCode |-> 3,
         discountPercent |-> DefaultDiscountPercent,
         discountAmount |->
           calculateDiscount(ProductPrice["p1"], DefaultDiscountPercent),
         total |-> ProductPrice["p1"] -
           calculateDiscount(ProductPrice["p1"], DefaultDiscountPercent),
         paymentId |-> 1]}
  /\ discountCodes =
       <<[code |-> 1, discountPercent |-> DefaultDiscountPercent,
          isUsed |-> FALSE, usedBy |-> Null, usedAt |-> NoDate,
          generatedForOrder |-> 0, expiresAt |-> NoDate],
         [code |-> 2, discountPercent |-> 25,
          isUsed |-> FALSE, usedBy |-> Null, usedAt |-> NoDate,
          generatedForOrder |-> 0, expiresAt |-> 1],
         [code |-> 3, discountPercent |-> DefaultDiscountPercent,
          isUsed |-> TRUE, usedBy |-> "u1", usedAt |-> 0,
          generatedForOrder |-> 0, expiresAt |-> NoDate]>>
  /\ stock \in InitStocks
  /\ isActive = [p \in Products |-> TRUE]
  /\ price = ProductPrice
  /\ carts \in {[u \in Users |-> IF u = "u1" THEN OtherCart ELSE c] :
                  c \in {NoCart, EmptyCart}}
  /\ quotes = [u \in Users |-> <<>>]
  /\ remoteOrders = 1
  /\ procs = [p \in Procs |-> IdleProc]
  /\ now = 0
  /\ started = 0
  /\ patches = 0
  /\ nthChanged = FALSE
  /\ InitConn
  /\ log = <<>>

CartStep ==
  \/ /\ Len(log) < MaxLog
     /\ \E u \in Users, code \in DiscountIds : CartDiscountPost(u, code)
  \/ /\ Len(log) < MaxLog
     /\ \E u \in Users : CartDiscountDelete(u)
  \/ \E u \in Users, productId \in Products, quantity \in 1..MaxQty :
       AddToCart(u, productId, quantity)
  \/ Tick

NextCart == CartStep

SpecCart == InitCart /\ [][NextCart]_vars

\* -------------------------------------------------- the life of a code
\* u1 has code 1 (expiring at day 1) on the cart and holds the quote for it;
\* code 2 is unused and never expires.  From here u1 changes the discount of
\* the cart, an administrator generates, updates and deletes codes, the
\* clock advances and the quote is confirmed.
InitCodes ==
  /\ storeSettings \in
       {<<[DefaultSettings EXCEPT !.nthOrderDiscount = n]>> :
          n \in {1, DefaultNthOrderDiscount}}
  /\ orders = {}
  /\ now = 0
  /\ discountCodes =
       <<[code |-> 1, discountPercent |-> DefaultDiscountPercent,
          isUsed |-> FALSE, usedBy |-> Null, usedAt |-> NoDate,
          generatedForOrder |-> 0, expiresAt |-> 1],
         [code |-> 2, discountPercent |-> 25,
          isUsed |-> FALSE, usedBy |-> Null, usedAt |-> NoDate,
          generatedForOrder |-> 0, expiresAt |-> NoDate]>>
  /\ stock \in InitStocks
  /\ isActive = [p \in Products |-> TRUE]
  /\ price = ProductPrice
  /\ carts = [u \in Users |-> IF u = "u1" THEN QuotedCart ELSE NoCart]
  /\ remoteOrders = 1
  /\ quotes = [u \in Users |->
                 IF u = "u1" THEN <<QuoteOf(u, QuotedCart, 1)>> ELSE <<>>]
  /\ procs = [p \in Procs |-> IdleProc]
  /\ started = 0
  /\ patches = 0
  /\ nthChanged = FALSE
  /\ InitConn
  /\ log = <<>>

NextCodes ==
  \/ /\ Len(log) < MaxCodeOps
     /\ \E code \in DiscountIds : CartDiscountPost("u1", code)
  \/ /\ Len(log) < MaxCodeOps
     /\ CartDiscountDelete("u1")
  \/ /\ Len(log) < MaxCodeOps
     /\ \E id \in DiscountIds, days \in DiscountExpiryChoices :
          AdminPatchDiscount(id, days)
  \/ /\ Len(log) < MaxCodeOps
     /\ \E d \in PatchPercentChoices : AdminGenerateDiscount(d, Undefined)
  \/ /\ Len(log) < MaxCodeOps
     /\ \E id \in DiscountIds : AdminDeleteDiscount(id)
  \/ Tick
  \/ PutRequest(1, HonestBody("u1"))
  \/ PutStep

SpecCodes == InitCodes /\ [][NextCodes]_vars

\* ------------------------------------------------ calculateDiscount alone
\* A call of calculateDiscount on a subtotal of at most MaxPaise paise and a
\* whole percentage, and its return.
Pending == -1

InitCalc ==
  /\ storeSettings = <<DefaultSettings>>
  /\ orders = {}
  /\ discountCodes = <<>>
  /\ stock \in InitStocks
  /\ isActive = [p \in Products |-> TRUE]
  /\ price = ProductPrice
  /\ carts = [u \in Users |-> NoCart]
  /\ quotes = [u \in Users |-> <<>>]
  /\ remoteOrders = 0
  /\ procs = [p \in Procs |-> IdleProc]
  /\ now = 0
  /\ started = 0
  /\ patches = 0
  /\ nthChanged = FALSE
  /\ InitConn
  /\ log \in {<<[op |-> "calculateDiscount", subtotal |-> subtotal,
                 discountPercent |-> discountPercent, result |-> Pending]>> :
                subtotal \in 0..MaxPaise, discountPercent \in 0..100}

Calculate ==
  /\ log[1].result = Pending
  /\ log' = [log EXCEPT ![1].result =
               calculateDiscount(log[1].subtotal, log[1].discountPercent)]
  /\ UNCHANGED <<dbVars, quotes, remoteOrders, procs, now, started, patches,
                 nthChanged, price, connVars>>

NextCalc == Calculate

SpecCalc == InitCalc /\ [][NextCalc]_vars

\* ------------------------------------------------------------ the catalog
MaxReads == 2

\* Prices a product is given once the store is open.
PriceChoices == {25000, 33300}

\* An edit that also rewrites the price of the product in the stored orders.
CatalogEdit_RewritesOrders(p, newPrice, active) ==
  /\ price' = [price EXCEPT ![p] = newPrice]
  /\ isActive' = [isActive EXCEPT ![p] = active]
  /\ orders' =
       {[o EXCEPT !.items =
           [i \in 1..Len(o.items) |->
              IF o.items[i].product = p
              THEN [o.items[i] EXCEPT !.price = newPrice]
              ELSE o.items[i]]] : o \in orders}
  /\ UNCHANGED <<storeSettings, discountCodes, stock, carts, quotes,
                 remoteOrders, procs, now, started, patches, nthChanged, log,
                 connVars>>

\* An edit of a Product document, made in the Product collection itself: the
\* price field, and the isActive flag the schema keeps for soft deletion.
CatalogEdit(p, newPrice, active) ==
  /\ price' = [price EXCEPT ![p] = newPrice]
  /\ isActive' = [isActive EXCEPT ![p] = active]
  /\ UNCHANGED <<storeSettings, orders, discountCodes, stock, carts, quotes,
                 remoteOrders, procs, now, started, patches, nthChanged, log,
                 connVars>>

\* GET /api/cart: the caller's cart, created empty when there is none, with
\* the lines of active products at their current price and the totals.
CartGet(u) ==
  LET cart == IF carts[u].exists THEN carts[u] ELSE EmptyCart
      validItems ==
        SelectSeq(QuoteItems(cart), LAMBDA item : isActive[item.product])
  IN /\ carts' = [carts EXCEPT ![u] = cart]
     /\ log' = Append(log, [op |-> "getCart", user |-> u, code |-> 0,
                            status |-> 200, error |-> "",
                            items |-> validItems, view |-> CartView(cart)])
     /\ UNCHANGED <<storeSettings, orders, discountCodes, stock, isActive,
                    quotes, remoteOrders, procs, now, started, patches,
                    nthChanged, price, connVars>>

\* The store of InitCart, where u1 redeemed code 3, with a cart of u2 that
\* holds one product and refers to no code or to one of the three codes
\* (a code stays on a cart when somebody else redeems it).
InitView ==
  /\ storeSettings = <<[DefaultSettings EXCEPT !.totalOrders = 1]>>
  /\ orders =
       {[user |-> "u1", orderNumber |-> 1,
         items |-> <<[product |-> "p1", price |-> ProductPrice["p1"],
                      quantity |-> 1]>>,
         subtotal |-> ProductPrice["p1"], discountCode |-> 3,
         discountPercent |-> DefaultDiscountPercent,
         discountAmount |->
           calculateDiscount(ProductPrice["p1"], DefaultDiscountPercent),
         total |-> ProductPrice["p1"] -
           calculateDiscount(ProductPrice["p1"], DefaultDiscountPercent),
         paymentId |-> 1]}
  /\ discountCodes =
       <<[code |-> 1, discountPercent |-> DefaultDiscountPercent,
          isUsed |-> FALSE, usedBy |-> Null, usedAt |-> NoDate,
          generatedForOrder |-> 0, expiresAt |-> NoDate],
         [code |-> 2, discountPercent |-> 25,
          isUsed |-> FALSE, usedBy |-> Null, usedAt |-> NoDate,
          generatedForOrder |-> 0, expiresAt |-> 1],
         [code |-> 3, discountPercent |-> DefaultDiscountPercent,
          isUsed |-> TRUE, usedBy |-> "u1", usedAt |-> 0,
          generatedForOrder |-> 0, expiresAt |-> NoDate]>>
  /\ stock \in InitStocks
  /\ isActive = [p \in Products |-> TRUE]
  /\ price = ProductPrice
  /\ carts \in {[u \in Users |->
                   IF u = "u1" THEN NoCart
                   ELSE [OtherCart EXCEPT !.appliedDiscount = d]] :
                  d \in 0..3}
  /\ quotes = [u \in Users |-> <<>>]
  /\ remoteOrders = 1
  /\ procs = [p \in Procs |-> IdleProc]
  /\ now = 0
  /\ started = 0
  /\ patches = 0
  /\ nthChanged = FALSE
  /\ InitConn
  /\ log = <<>>

NextView ==
  \/ /\ Len(log) < MaxReads
     /\ \E u \in Users : CartGet(u)
  \/ \E p \in Products, newPrice \in PriceChoices, active \in BOOLEAN :
       CatalogEdit(p, newPrice, active)
  \/ Tick

SpecView == InitView /\ [][NextView]_vars

\* --------------------------------------------------- orders once created
\* u1 holds a quote; confirmations of it run while the catalog is edited.
NextLedger ==
  \/ \E p \in 1..MaxRequests, body \in RequestBodies : PutRequest(p, body)
  \/ PutStep
  \/ \E p \in Products, newPrice \in PriceChoices, active \in BOOLEAN :
       CatalogEdit(p, newPrice, active)

SpecLedger == InitSettle /\ [][NextLedger]_vars

\* ------------------------------------------------- the first confirmations
\* The store before any StoreSettings document was created: u1 holds a
\* quote and the first confirmations arrive.
InitFirst ==
  /\ storeSettings = <<>>
  /\ orders = {}
  /\ discountCodes = <<[code |-> 1, discountPercent |-> 10, isUsed |-> FALSE,
                        usedBy |-> Null, usedAt |-> NoDate,
                        generatedForOrder |-> 0, expiresAt |-> NoDate]>>
  /\ stock \in InitStocks
  /\ isActive = [p \in Products |-> TRUE]
  /\ price = ProductPrice
  /\ carts = [u \in Users |-> IF u = "u1" THEN QuotedCart ELSE NoCart]
  /\ remoteOrders = 1
  /\ quotes = [u \in Users |->
                 IF u = "u1" THEN <<QuoteOf(u, QuotedCart, 1)>> ELSE <<>>]
  /\ procs = [p \in Procs |-> IdleProc]
  /\ now = 0
  /\ started = 0
  /\ patches = 0
  /\ nthChanged = FALSE
  /\ InitConn
  /\ log = <<>>

NextFirst ==
  \/ \E p \in 1..MaxRequests, body \in RequestBodies : PutRequest(p, body)
  \/ \E p \in Procs : PutCreateSettings(p)
  \/ PutStep
  \/ PatchStep

SpecFirst == InitFirst /\ [][NextFirst]_vars

\* ------------------------------------------------ invalid confirmations
\* The quote sent back with a field that makes the input invalid: an item
\* quantity below 1, a negative total, or no user.
InvalidBodies ==
  UNION {{[HonestBody(u) EXCEPT
             !.items = [i \in 1..Len(@) |-> [@[i] EXCEPT !.quantity = 0]]],
          [HonestBody(u) EXCEPT !.total = -1],
          [HonestBody(u) EXCEPT !.userId = Null]} :
           u \in {x \in Users : quotes[x] # <<>>}}

NextInvalid ==
  \/ \E p \in 1..MaxRequests, body \in RequestBodies \cup InvalidBodies :
       PutRequest(p, body)
  \/ PutStep

SpecInvalid == InitSettle /\ [][NextInvalid]_vars

\* ------------------------------------------------- confirmations for others
\* PUT /api/checkout does not call auth(): the user of the order is the
\* userId of the body.  A client sends the quote it holds under the id of
\* another user.
ForgedBodies ==
  UNION {{[HonestBody(u) EXCEPT !.userId = v] : v \in Users \ {u}} :
           u \in {x \in Users : quotes[x] # <<>>}}

\* The client a remote payment order was issued to by POST /api/checkout,
\* which is the client able to send a body carrying its id.
Sender(razorpayOrderId) ==
  CHOOSE u \in Users :
    quotes[u] # <<>> /\ quotes[u][1].razorpayOrderId = razorpayOrderId

NextForge ==
  \/ \E p \in 1..MaxRequests, body \in RequestBodies \cup ForgedBodies :
       PutRequest(p, body)
  \/ PutStep

SpecForge == InitTamper /\ [][NextForge]_vars

\* ------------------------------------------------------- /api/admin guard
\* The session auth() returns: none, a customer's, an administrator's.
Sessions ==
  {[id |-> Null, role |-> "none"],
   [id |-> "u1", role |-> "customer"],
   [id |-> "admin", role |-> "admin"]}

\* A test that lets every signed-in user through.
AdminAccess_AnySession(session) == session.id # Null

\* !(!session?.user?.id || session.user.role !== "admin")
AdminAccess(session) == session.id # Null /\ session.role = "admin"

\* The first statement of every handler under /api/admin: 403 unless the
\* session is an administrator's, the handler proper otherwise.
AdminOnly(session, op, handler) ==
  IF AdminAccess(session) THEN handler
  ELSE /\ log' = Append(log, LogEntry(op, session.id, 0, 403, "forbidden",
                                      NoCart))
       /\ UNCHANGED <<dbVars, quotes, remoteOrders, procs, now, started,
                      patches, nthChanged, price, connVars>>

\* GET /api/admin/settings and GET /api/admin/stats: getStoreSettings(),
\* which creates the document when there is none, and a read.
AdminRead(op) ==
  /\ storeSettings' = IF storeSettings = <<>> THEN <<DefaultSettings>>
                      ELSE storeSettings
  /\ log' = Append(log, LogEntry(op, "admin", 0, 200, "", NoCart))
  /\ UNCHANGED <<orders, discountCodes, stock, isActive, carts, quotes,
                 remoteOrders, procs, now, started, patches, nthChanged,
                 price, connVars>>

\* GET /api/admin/discounts: a read of the DiscountCode collection.
AdminListDiscounts ==
  /\ log' = Append(log, LogEntry("listDiscounts", "admin", 0, 200, "",
                                 NoCart))
  /\ UNCHANGED <<dbVars, quotes, remoteOrders, procs, now, started, patches,
                 nthChanged, price, connVars>>

\* The seven handlers under /api/admin, called with a session.
AdminSettingsGet(session) ==
  AdminOnly(session, "getSettings", AdminRead("getSettings"))

AdminSettingsPatch(session) ==
  AdminOnly(session, "patchSettings",
            /\ patches < MaxPatches
            /\ \E b \in PatchBodies : AdminPatchSettings(b[1], b[2], b[3]))

AdminDiscountsGet(session) ==
  AdminOnly(session, "listDiscounts", AdminListDiscounts)

AdminDiscountsPost(session) ==
  AdminOnly(session, "generateDiscount",
            \E d \in PatchPercentChoices : AdminGenerateDiscount(d, Undefined))

AdminDiscountsPatch(session) ==
  AdminOnly(session, "patchDiscount",
            \E id \in DiscountIds, days \in DiscountExpiryChoices :
              AdminPatchDiscount(id, days))

AdminDiscountsDelete(session) ==
  AdminOnly(session, "deleteDiscount",
            \E id \in DiscountIds : AdminDeleteDiscount(id))

AdminStatsGet(session) ==
  AdminOnly(session, "getStats", AdminRead("getStats"))

\* One request to a handler under /api/admin made with the given session.
AdminRequest(session) ==
  \/ AdminSettingsGet(session)
  \/ AdminSettingsPatch(session)
  \/ AdminDiscountsGet(session)
  \/ AdminDiscountsPost(session)
  \/ AdminDiscountsPatch(session)
  \/ AdminDiscountsDelete(session)
  \/ AdminStatsGet(session)

NextAdmin ==
  \/ /\ Len(log) < MaxCodeOps
     /\ \E session \in Sessions : AdminSettingsGet(session)
  \/ /\ Len(log) < MaxCodeOps
     /\ \E session \in Sessions : AdminSettingsPatch(session)
  \/ /\ Len(log) < MaxCodeOps
     /\ \E session \in Sessions : AdminDiscountsGet(session)
  \/ /\ Len(log) < MaxCodeOps
     /\ \E session \in Sessions : AdminDiscountsPost(session)
  \/ /\ Len(log) < MaxCodeOps
     /\ \E session \in Sessions : AdminDiscountsPatch(session)
  \/ /\ Len(log) < MaxCodeOps
     /\ \E session \in Sessions : AdminDiscountsDelete(session)
  \/ /\ Len(log) < MaxCodeOps
     /\ \E session \in Sessions : AdminStatsGet(session)

SpecAdmin == InitCodes /\ [][NextAdmin]_vars

\* -------------------------------------------- POST /api/checkout, answered
\* The first failing test of the handler on the cart of u, "" when none
\* fails: the lines are tested in order, each for its product being there
\* and active, then for its quantity against the stock.
RECURSIVE ItemsError(_)
ItemsError(items) ==
  IF items = <<>> THEN ""
  ELSE IF ~isActive[Head(items).product] THEN "unavailable"
  ELSE IF Head(items).quantity > stock[Head(items).product] THEN "stock"
  ELSE ItemsError(Tail(items))

\* The tests without the one on the stock.
RECURSIVE ItemsError_NoStockTest(_)
ItemsError_NoStockTest(items) ==
  IF items = <<>> THEN ""
  ELSE IF ~isActive[Head(items).product] THEN "unavailable"
  ELSE ItemsError_NoStockTest(Tail(items))

CheckoutError_NoStockTest(u) ==
  IF ~carts[u].exists \/ Len(carts[u].items) = 0 THEN "empty"
  ELSE ItemsError_NoStockTest(carts[u].items)

CheckoutError(u) ==
  IF ~carts[u].exists \/ Len(carts[u].items) = 0 THEN "empty"
  ELSE ItemsError(carts[u].items)

\* The handler with its response: 400 on a failing test, otherwise a remote
\* payment order is created and the quote returned.
CheckoutPost(u) ==
  LET error == CheckoutError(u)
  IN /\ IF error = ""
        THEN /\ remoteOrders' = remoteOrders + 1
             /\ quotes' = [quotes EXCEPT
                             ![u] = <<QuoteOf(u, carts[u], remoteOrders + 1)>>]
        ELSE UNCHANGED <<quotes, remoteOrders>>
     /\ log' = Append(log, LogEntry("checkout", u, 0,
                                    IF error = "" THEN 200 ELSE 400, error,
                                    carts[u]))
     /\ UNCHANGED <<dbVars, procs, now, started, patches, nthChanged, price,
                    connVars>>

\* u2 has a cart holding the one unit in stock, with or without code 1 on
\* it; u1 has no cart yet.  Carts are filled, quotes asked for and the first
\* quote confirmed, while the catalog is edited.
InitQuote ==
  /\ storeSettings = <<DefaultSettings>>
  /\ orders = {}
  /\ discountCodes = <<[code |-> 1, discountPercent |-> 10, isUsed |-> FALSE,
                        usedBy |-> Null, usedAt |-> NoDate,
                        generatedForOrder |-> 0, expiresAt |-> NoDate]>>
  /\ stock \in InitStocks
  /\ isActive = [p \in Products |-> TRUE]
  /\ price = ProductPrice
  /\ carts \in {[u \in Users |->
                   IF u = "u1" THEN NoCart
                   ELSE [OtherCart EXCEPT !.appliedDiscount = d]] :
                  d \in 0..1}
  /\ quotes = [u \in Users |-> <<>>]
  /\ remoteOrders = 0
  /\ procs = [p \in Procs |-> IdleProc]
  /\ now = 0
  /\ started = 0
  /\ patches = 0
  /\ nthChanged = FALSE
  /\ InitConn
  /\ log = <<>>

NextQuote ==
  \/ /\ Len(log) < MaxReads
     /\ \E u \in Users : CheckoutPost(u)
  \/ \E u \in Users, productId \in Products, quantity \in 1..MaxQty :
       AddToCart(u, productId, quantity)
  \/ \E p \in Products, newPrice \in PriceChoices, active \in BOOLEAN :
       CatalogEdit(p, newPrice, active)
  \/ \E u \in {x \in Users : quotes[x] # <<>>} : PutRequest(1, HonestBody(u))
  \/ PutStep

SpecQuote == InitQuote /\ [][NextQuote]_vars

\* ------------------------------------------------------- the cart's lines
MaxAdd == 2

\* Units in stock while carts are filled.
LineStock == MaxAdd + 1

\* z.number().int().min(1) of addToCartSchema and updateSchema.
ValidQuantity(quantity) == quantity >= 1

\* POST /api/cart with the validation of its body.
CartPost(u, productId, quantity) ==
  /\ ValidQuantity(quantity)
  /\ AddToCart(u, productId, quantity)

\* PATCH /api/cart/[productId]: sets the quantity of the line of productId.
CartItemPatch(u, productId, quantity) ==
  /\ ValidQuantity(quantity)
  /\ quantity <= stock[productId]
  /\ carts[u].exists
  /\ LET itemIndex == FindItemIndex(carts[u].items, productId)
     IN /\ itemIndex > 0
        /\ carts' = [carts EXCEPT ![u].items[itemIndex].quantity = quantity]
  /\ UNCHANGED <<storeSettings, orders, discountCodes, stock, isActive,
                 quotes, remoteOrders, procs, now, started, patches,
                 nthChanged, log, price, connVars>>

\* DELETE /api/cart/[productId]: filters the lines of productId out.
CartItemDelete(u, productId) ==
  /\ carts[u].exists
  /\ carts' = [carts EXCEPT ![u].items =
                 SelectSeq(@, LAMBDA item : item.product # productId)]
  /\ UNCHANGED <<storeSettings, orders, discountCodes, stock, isActive,
                 quotes, remoteOrders, procs, now, started, patches,
                 nthChanged, log, price, connVars>>

\* DELETE /api/cart: Cart.findOneAndUpdate({user}, {items: [],
\* appliedDiscount: null}).
CartClear(u) ==
  /\ carts[u].exists
  /\ carts' = [carts EXCEPT ![u].items = <<>>, ![u].appliedDiscount = 0]
  /\ UNCHANGED <<storeSettings, orders, discountCodes, stock, isActive,
                 quotes, remoteOrders, procs, now, started, patches,
                 nthChanged, log, price, connVars>>

\* A store with LineStock units of the product and no cart yet.
InitLines ==
  /\ storeSettings = <<DefaultSettings>>
  /\ orders = {}
  /\ discountCodes = <<[code |-> 1, discountPercent |-> 10, isUsed |-> FALSE,
                        usedBy |-> Null, usedAt |-> NoDate,
                        generatedForOrder |-> 0, expiresAt |-> NoDate]>>
  /\ stock = [p \in Products |-> LineStock]
  /\ isActive = [p \in Products |-> TRUE]
  /\ price = ProductPrice
  /\ carts = [u \in Users |-> NoCart]
  /\ quotes = [u \in Users |-> <<>>]
  /\ remoteOrders = 0
  /\ procs = [p \in Procs |-> IdleProc]
  /\ now = 0
  /\ started = 0
  /\ patches = 0
  /\ nthChanged = FALSE
  /\ InitConn
  /\ log = <<>>

NextLines ==
  \/ \E u \in Users, productId \in Products, quantity \in 0..MaxAdd :
       CartPost(u, productId, quantity)
  \/ \E u \in Users, productId \in Products, quantity \in 0..MaxAdd :
       CartItemPatch(u, productId, quantity)
  \/ \E u \in Users, productId \in Products : CartItemDelete(u, productId)
  \/ \E u \in Users : CartClear(u)
  \/ \E u \in Users, code \in 1..Len(discountCodes) : ApplyDiscount(u, code)
  \/ \E p \in Products, newPrice \in PriceChoices, active \in BOOLEAN :
       CatalogEdit(p, newPrice, active)

SpecLines == InitLines /\ [][NextLines]_vars

\* ---------------------------------------------------------------- connectDB
\* connectDB is an async function: a call runs up to its await in one job,
\* and its continuation is a promise reaction job.  Jobs run one at a time in
\* the order they were queued; which job a call arrives in, and when
\* mongoose.connect settles, is up to the handlers and the network.
MaxAttempts == 3

storeVars == <<storeSettings, orders, discountCodes, stock, isActive, carts,
               quotes, remoteOrders, procs, now, started, patches, nthChanged,
               log, price>>

\* mongoose.connect calls whose promise has not settled.
InFlight == {k \in 1..Len(attempts) : attempts[k] = "pending"}

CallJob(c) == [kind |-> "call", caller |-> c, attempt |-> 0]

\* The continuation of `await cached.promise` for the promise of attempt k.
ContJob(c, k) == [kind |-> "cont", caller |-> c, attempt |-> k]

\* The reactions registered on the promise of attempt k, oldest first.
RECURSIVE Reactions(_, _)
Reactions(ws, k) ==
  IF ws = <<>> THEN <<>>
  ELSE IF Head(ws).attempt = k
       THEN <<ContJob(Head(ws).caller, k)>> \o Reactions(Tail(ws), k)
       ELSE Reactions(Tail(ws), k)

\* A handler reaches `await connectDB()`.
ConnectArrive(c) ==
  /\ calls[c] = "idle"
  /\ calls' = [calls EXCEPT ![c] = "queued"]
  /\ jobs' = Append(jobs, CallJob(c))
  /\ UNCHANGED <<cached, attempts, waiters, storeVars>>

\* `if (!cached.promise)`: the call starts a connection attempt.
StartsAttempt(c) == cached.promise = 0

\* The body of connectDB up to its await.
ConnectCall ==
  /\ jobs # <<>>
  /\ Head(jobs).kind = "call"
  /\ LET c == Head(jobs).caller
     IN IF cached.conn # 0
        THEN /\ calls' = [calls EXCEPT ![c] = "returned"]
             /\ jobs' = Tail(jobs)
             /\ UNCHANGED <<cached, attempts, waiters>>
        ELSE LET start == StartsAttempt(c)
                 promise == IF start THEN Len(attempts) + 1
                            ELSE cached.promise
             IN /\ start => Len(attempts) < MaxAttempts
                /\ attempts' = IF start THEN Append(attempts, "pending")
                               ELSE attempts
                /\ cached' = [cached EXCEPT !.promise = promise]
                /\ calls' = [calls EXCEPT ![c] = "awaiting"]
                /\ IF attempts'[promise] = "pending"
                   THEN /\ waiters' =
                             Append(waiters, [caller |-> c, attempt |-> promise])
                        /\ jobs' = Tail(jobs)
                   ELSE /\ jobs' = Append(Tail(jobs), ContJob(c, promise))
                        /\ UNCHANGED waiters
  /\ UNCHANGED storeVars

\* mongoose.connect of attempt k settles; the reactions of its promise are
\* queued in the order they were registered.
ConnectSettle(k, outcome) ==
  /\ k \in InFlight
  /\ attempts' = [attempts EXCEPT ![k] = outcome]
  /\ jobs' = jobs \o Reactions(waiters, k)
  /\ waiters' = SelectSeq(waiters, LAMBDA w : w.attempt # k)
  /\ UNCHANGED <<cached, calls, storeVars>>

\* The rest of connectDB after its await: cache the connection, or reset
\* cached.promise and rethrow.
ConnectResume ==
  /\ jobs # <<>>
  /\ Head(jobs).kind = "cont"
  /\ LET c == Head(jobs).caller
         k == Head(jobs).attempt
     IN IF attempts[k] = "resolved"
        THEN /\ cached' = [cached EXCEPT !.conn = k]
             /\ calls' = [calls EXCEPT ![c] = "returned"]
        ELSE /\ cached' = [cached EXCEPT !.promise = 0]
             /\ calls' = [calls EXCEPT ![c] = "thrown"]
  /\ jobs' = Tail(jobs)
  /\ UNCHANGED <<attempts, waiters, storeVars>>

NextConnect ==
  \/ \E c \in Callers : ConnectArrive(c)
  \/ ConnectCall
  \/ \E k \in 1..MaxAttempts, outcome \in {"resolved", "rejected"} :
       ConnectSettle(k, outcome)
  \/ ConnectResume

SpecConnect == InitLines /\ [][NextConnect]_vars

\* ================================================================= claims
Allocated(p) == procs[p].orderNumber > 0
Succeeded(p) == procs[p].pc = "done" /\ procs[p].resp = 200
Failed(p) == procs[p].pc = "done" /\ procs[p].resp = 500
Quiescent == \A p \in Procs : procs[p].pc \in {"idle", "done"}
OrderNumbers == {o.orderNumber : o \in orders}
CodesFor(k) ==
  {i \in 1..Len(discountCodes) : discountCodes[i].generatedForOrder = k}
OneUnit(body) ==
  body.items = <<[product |-> "p1", price |-> ProductPrice["p1"],
                  quantity |-> 1]>>

\* C1: no two order confirmations are allocated the same order number from
\* the settings counter, whatever the interleaving.
C1_DistinctAllocations ==
  \A p, q \in Procs :
    (p # q /\ Allocated(p) /\ Allocated(q))
      => procs[p].orderNumber # procs[q].orderNumber

\* C2: a discount code is redeemed at most once: at most one persisted order
\* carries a given code, every other confirmation naming it being rejected.
C2_CodeRedeemedOnce ==
  \A o1, o2 \in orders :
    (o1.discountCode # 0 /\ o1.discountCode = o2.discountCode) => o1 = o2

\* C3: every product's stock is at least 0 in every reachable state.
C3_StockNeverNegative == \A p \in Products : stock[p] >= 0

\* C4: of two concurrent confirmations (of two different payments) for one
\* unit each of a product whose stock is 1, exactly one succeeds, the other
\* is rejected, and the final stock is 0.
C4_OneUnitOneWinner ==
  \A p, q \in Procs :
    (/\ p # q
     /\ procs[p].pc = "done" /\ procs[q].pc = "done"
     /\ procs[p].resp # 400 /\ procs[q].resp # 400
     /\ OneUnit(procs[p].body) /\ OneUnit(procs[q].body)
     /\ procs[p].body.razorpayPaymentId # procs[q].body.razorpayPaymentId
     /\ procs[p].pre["p1"] = 1 /\ procs[q].pre["p1"] = 1)
    => /\ Succeeded(p) # Succeeded(q)
       /\ stock["p1"] = 0

\* C5: replaying a confirmation with the same payment id any number of times
\* leaves exactly one persisted order for that payment id.
C5_OneOrderPerPayment ==
  \A o1, o2 \in orders : o1.paymentId = o2.paymentId => o1 = o2

\* C6: a confirmation that fails leaves the counter, the orders, the discount
\* codes and the stock as they were before it started (stated for the runs
\* in which it is the only confirmation received, so that the state before
\* it is the initial one).
C6_FailureLeavesNoTrace ==
  (started = 1 /\ Failed(1))
    => /\ TotalOrders = 0
       /\ orders = {}
       /\ UsedCodes = {}
       /\ Len(discountCodes) = 1
       /\ stock \in InitStocks

\* C7: a successful confirmation assigned order number k has created a
\* discount code tagged k if and only if k mod N = 0, N being the
\* nthOrderDiscount of the settings it loaded (the stored value as long as no
\* administrator changed it).
C7_MintIffNthOrder ==
  \A p \in Procs :
    Succeeded(p) =>
      LET k == procs[p].orderNumber
          n == procs[p].settings.nthOrderDiscount
      IN /\ (procs[p].newDiscountCode # 0) <=> (k % n = 0)
         /\ (CodesFor(k) # {}) <=> (k % n = 0)
         /\ procs[p].newDiscountCode # 0 =>
              /\ procs[p].newDiscountCode \in 1..Len(discountCodes)
              /\ discountCodes[procs[p].newDiscountCode].generatedForOrder = k
         /\ ~nthChanged => n = storeSettings[1].nthOrderDiscount

C7_Witness ==
  \E p, q \in Procs :
    /\ Succeeded(p) /\ Succeeded(q)
    /\ procs[p].orderNumber % procs[p].settings.nthOrderDiscount = 0
    /\ procs[p].newDiscountCode # 0
    /\ ~discountCodes[procs[p].newDiscountCode].isUsed
    /\ procs[q].orderNumber % procs[q].settings.nthOrderDiscount # 0
    /\ procs[q].newDiscountCode = 0

\* C8: with N unchanged, once the confirmations have completed there is
\* exactly one reward code tagged with each persisted order number that is a
\* multiple of N, and every code tagged with an order number is tagged with
\* a persisted multiple of N.
C8_OneRewardPerNthOrder ==
  (Quiescent /\ ~nthChanged) =>
    LET n == storeSettings[1].nthOrderDiscount
    IN /\ \A k \in OrderNumbers : k % n = 0 => Cardinality(CodesFor(k)) = 1
       /\ \A i \in 1..Len(discountCodes) :
            LET k == discountCodes[i].generatedForOrder
            IN k # 0 => (k % n = 0 /\ k \in OrderNumbers)

C8_Witness ==
  /\ Quiescent /\ ~nthChanged
  /\ started = MaxRequests
  /\ \E k \in OrderNumbers :
       /\ k % storeSettings[1].nthOrderDiscount = 0
       /\ Cardinality(CodesFor(k)) = 1
  /\ \E k \in OrderNumbers : k % storeSettings[1].nthOrderDiscount # 0

\* C9: totalOrders never decreases and changes only by exactly +1, only as
\* the counter step of an order confirmation.
C9_CounterOnlyIncrements ==
  [][\/ TotalOrders' = TotalOrders
     \/ /\ TotalOrders' = TotalOrders + 1
        /\ \E p \in Procs : procs[p].pc = "save" /\ procs'[p].pc = "create"]_vars

\* C10: once the confirmations have completed, the numbers of the persisted
\* orders are exactly 1..totalOrders.
C10_OrderNumbersGapFree ==
  Quiescent => OrderNumbers = 1..TotalOrders

\* The values the server derives for the purchaser of order o: the quote
\* POST /api/checkout computed from the stored cart, the product prices and
\* the applied code.
DerivedFor(o) == quotes[o.user][1]

\* C11: the items, subtotal, discount and total of a persisted order equal
\* the values the server derives from the purchaser's stored cart, the
\* product prices and the applied code (stated for the first confirmation
\* received, before which nothing has changed the cart, prices or code).
C11_OrderFromStoredCart ==
  started = 1 =>
    \A o \in orders :
      /\ o.items = DerivedFor(o).items
      /\ o.subtotal = DerivedFor(o).subtotal
      /\ o.discountCode = DerivedFor(o).discountCode
      /\ o.discountPercent = DerivedFor(o).discountPercent
      /\ o.discountAmount = DerivedFor(o).discountAmount
      /\ o.total = DerivedFor(o).total

\* C12: every persisted order has total = subtotal - discountAmount and
\* 0 <= discountAmount <= subtotal, hence total >= 0.
C12_OrderTotalConsistent ==
  \A o \in orders :
    /\ o.total = o.subtotal - o.discountAmount
    /\ 0 <= o.discountAmount /\ o.discountAmount <= o.subtotal
    /\ o.total >= 0

\* The response a step has just added to log.
Responded(op) ==
  Len(log') = Len(log) + 1 /\ log'[Len(log')].op = op

\* POST /api/cart/discount answers 200 and attaches the code when the code
\* exists, is unused and not expired and the cart has an item, and otherwise
\* rejects and leaves the applied discount alone; not expired is "no expiry
\* or now before expiry" when strict, "no expiry or now not after expiry"
\* when not.
ApplyRespects(strict) ==
  Responded("applyDiscount") =>
    LET e == log'[Len(log')]
        ci == CodeIndex(e.code)
        attachable ==
          /\ ci > 0
          /\ ~discountCodes[ci].isUsed
          /\ \/ discountCodes[ci].expiresAt = NoDate
             \/ IF strict THEN now < discountCodes[ci].expiresAt
                ELSE now <= discountCodes[ci].expiresAt
          /\ carts[e.user].exists
          /\ Len(carts[e.user].items) > 0
    IN IF attachable
       THEN e.status = 200 /\ carts'[e.user].appliedDiscount = e.code
       ELSE /\ e.status # 200
            /\ carts'[e.user].appliedDiscount = carts[e.user].appliedDiscount

\* C13 as stated: the code is attached only if it exists, is unused, has no
\* expiry or now is before the expiry, and the cart has an item; otherwise
\* the request is rejected and the applied discount is unchanged.
C13_Original == [][ApplyRespects(TRUE)]_vars

\* C13 amended: the code is attached only if it exists, is unused, has no
\* expiry or now is not after the expiry, and the cart has an item;
\* otherwise the request is rejected and the applied discount is unchanged.
C13_ApplyPreconditions == [][ApplyRespects(FALSE)]_vars

C13_Witness ==
  /\ \E i \in 1..Len(log) :
       /\ log[i].op = "applyDiscount" /\ log[i].status = 200
       /\ carts[log[i].user].appliedDiscount = log[i].code
  /\ \E i \in 1..Len(log) :
       log[i].op = "applyDiscount" /\ log[i].error = "expired"
  /\ \E i \in 1..Len(log) :
       log[i].op = "applyDiscount" /\ log[i].error \in {"used", "empty"}

\* C14: applying a code to a cart, removing it or replacing it leaves every
\* code document unchanged, and a code goes from unused to used only in the
\* redemption step of an order confirmation.
C14_CartOpsLeaveCodes ==
  [][/\ (Responded("applyDiscount") \/ Responded("removeDiscount"))
          => discountCodes' = discountCodes
     /\ \A i \in 1..Len(discountCodes) :
          (/\ i <= Len(discountCodes')
           /\ ~discountCodes[i].isUsed
           /\ discountCodes'[i].isUsed)
            => \E p \in Procs :
                 procs[p].pc = "redeem" /\ procs'[p].pc = "stock"]_vars

C14_Witness ==
  /\ Len(log) = 2
  /\ log[1].op = "applyDiscount" /\ log[1].status = 200 /\ log[1].code = 2
  /\ log[2].op = "removeDiscount"
  /\ discountCodes[1].isUsed /\ discountCodes[1].usedBy = "u1"
  /\ ~discountCodes[2].isUsed /\ discountCodes[2].discountPercent = 25
  /\ discountCodes[2].expiresAt = NoDate

\* C15: a code applied to a cart, removed and applied again while it still
\* exists, is unused and not expired is attached again, and the applied
\* reference, discount amount and total of the cart are those after the
\* first application.
C15_ReapplyRestores ==
  \A i \in 1..(Len(log) - 2) :
    (/\ log[i].op = "applyDiscount" /\ log[i].status = 200
     /\ log[i + 1].op = "removeDiscount" /\ log[i + 1].user = log[i].user
     /\ log[i + 2].op = "applyDiscount" /\ log[i + 2].user = log[i].user
     /\ log[i + 2].code = log[i].code
     /\ log[i + 2].error \notin {"invalid", "used", "expired"})
    => /\ log[i + 2].status = 200
       /\ log[i + 2].view = log[i].view

C15_Witness ==
  /\ Len(log) = 3
  /\ log[1].op = "applyDiscount" /\ log[1].status = 200
  /\ log[1].view.discountAmount > 0
  /\ log[2].op = "removeDiscount" /\ log[2].user = log[1].user
  /\ log[2].view.discountAmount = 0 /\ log[2].view.appliedDiscount = 0
  /\ log[3].op = "applyDiscount" /\ log[3].status = 200
  /\ log[3].user = log[1].user /\ log[3].code = log[1].code
  /\ carts[log[3].user].appliedDiscount = log[3].code

\* C16: a code that is used stays used, a code that is expired stays expired
\* and is not redeemed, and the percent and the expiry timestamp of a code
\* never change.
C16_CodeLifecycle ==
  [][\A i \in 1..Len(discountCodes) :
       (/\ i <= Len(discountCodes')
        /\ discountCodes[i] # Deleted /\ discountCodes'[i] # Deleted)
       => /\ discountCodes[i].isUsed => discountCodes'[i].isUsed
          /\ discountCodes'[i].discountPercent =
               discountCodes[i].discountPercent
          /\ discountCodes'[i].expiresAt = discountCodes[i].expiresAt
          /\ isExpired(discountCodes[i].expiresAt) =>
               /\ discountCodes'[i].isUsed = discountCodes[i].isUsed
               /\ discountCodes'[i].expiresAt # NoDate
               /\ now' > discountCodes'[i].expiresAt]_vars

\* C17: the step of a confirmation for user u that clears the cart leaves
\* u's cart without items and without applied discount, and every other
\* user's cart as it was.
C17_ClearsOnlyPurchaserCart ==
  [][\A p \in Procs :
       (procs[p].pc = "stock" /\ procs'[p].pc = "mint") =>
         LET u == procs[p].body.userId
         IN /\ carts'[u].items = <<>>
            /\ carts'[u].appliedDiscount = 0
            /\ \A v \in Users \ {u} : carts'[v] = carts[v]]_vars

C17_Witness ==
  \E p \in Procs :
    /\ Succeeded(p)
    /\ procs[p].body.userId = "u1"
    /\ carts["u1"] = [exists |-> TRUE, items |-> <<>>, appliedDiscount |-> 0]
    /\ carts["u2"] = OtherCart

\* C18: a confirmation that is about to decrement the stock of a line whose
\* quantity exceeds the product's current stock is rejected, and the stock
\* is left unchanged.
C18_OversoldRejected ==
  [][\A p \in Procs :
       (/\ procs[p].pc = "stock"
        /\ procs[p].idx <= Len(procs[p].body.items)
        /\ procs'[p] # procs[p]
        /\ procs[p].body.items[procs[p].idx].quantity >
             stock[procs[p].body.items[procs[p].idx].product])
       => /\ procs'[p].pc = "done"
          /\ procs'[p].resp # 200
          /\ stock' = stock]_vars

\* C19: calculateDiscount(s, p) is s * p / 100 rounded half-up to the paisa,
\* is 0 for p = 0 and s for p = 100, and leaves a total s - discount that
\* is not negative.
C19_HalfUpDiscount ==
  \A i \in 1..Len(log) :
    (log[i].op = "calculateDiscount" /\ log[i].result # Pending) =>
      /\ log[i].result =
           (log[i].subtotal * log[i].discountPercent + 50) \div 100
      /\ log[i].discountPercent = 0 => log[i].result = 0
      /\ log[i].discountPercent = 100 => log[i].result = log[i].subtotal
      /\ log[i].subtotal - log[i].result >= 0

\* C20: isExpired is false for no date, true for a date before now and
\* false for a date after now; POST /api/cart/discount answers "expired"
\* exactly for an existing unused code whose stored timestamp the clock has
\* passed; and neither that answer nor the passing of time changes a code.
C20_ExpiryDerivedNotStored ==
  [][/\ ~isExpired(NoDate)
     /\ \A d \in 0..(MaxNow + 1) :
          (d < now => isExpired(d)) /\ (d > now => ~isExpired(d))
     /\ Responded("applyDiscount") =>
          LET e == log'[Len(log')]
              ci == CodeIndex(e.code)
          IN /\ (e.error = "expired") <=>
                  (/\ ci > 0
                   /\ ~discountCodes[ci].isUsed
                   /\ discountCodes[ci].expiresAt # NoDate
                   /\ now > discountCodes[ci].expiresAt)
             /\ discountCodes' = discountCodes
     /\ now' # now => discountCodes' = discountCodes]_vars

C20_Witness ==
  \E i \in 1..Len(log) :
    /\ log[i].op = "applyDiscount" /\ log[i].error = "expired"
    /\ discountCodes[log[i].code].code = log[i].code
    /\ ~discountCodes[log[i].code].isUsed
    /\ discountCodes[log[i].code].expiresAt # NoDate
    /\ discountCodes[log[i].code].expiresAt < now


\* C21: every GET /api/cart answers with the lines of the stored cart whose
\* product is active, each at the product's current price and never at the
\* stored priceAtAdd, with subtotal the sum of price times quantity over
\* those lines, the discount of the applied code only when that code is
\* unused and not expired, and total = subtotal - discount.
ReadRecomputed ==
  (Len(log') = Len(log) + 1 /\ log'[Len(log')].op = "getCart") =>
    LET e == log'[Len(log')]
        cart == carts[e.user]
        lines == {i \in 1..Len(cart.items) : isActive[cart.items[i].product]}
        ci == CodeIndex(cart.appliedDiscount)
        valid == /\ cart.appliedDiscount # 0
                 /\ ci > 0
                 /\ ~discountCodes[ci].isUsed
                 /\ ~isExpired(discountCodes[ci].expiresAt)
    IN /\ Len(e.items) = Cardinality(lines)
       /\ \A k \in 1..Len(e.items) :
            /\ e.items[k].price = price[e.items[k].product]
            /\ \E i \in lines :
                 /\ cart.items[i].product = e.items[k].product
                 /\ cart.items[i].quantity = e.items[k].quantity
       /\ e.view.subtotal = SumItems(e.items)
       /\ e.view.discountAmount =
            IF valid
            THEN calculateDiscount(e.view.subtotal,
                                   discountCodes[ci].discountPercent)
            ELSE 0
       /\ e.view.total = e.view.subtotal - e.view.discountAmount

C21_CartReadRecomputed == [][ReadRecomputed]_vars

\* A read of a discounted cart made after the product's price was changed.
C21_Witness ==
  \E i \in 1..Len(log) :
    /\ log[i].op = "getCart"
    /\ Len(log[i].items) = 1
    /\ log[i].items[1].price # ProductPrice[log[i].items[1].product]
    /\ log[i].view.discountAmount > 0

\* C22: an order, once created, is never modified or deleted: every order
\* document of a state is found unchanged (order number, items, item prices,
\* subtotal, discount fields, total) in the next state, whatever step is
\* taken, a change of a product's price included.
C22_OrdersImmutable == [][\A o \in orders : o \in orders']_vars

\* Two orders are stored and the product's price is no longer the one they
\* were placed at.
C22_Witness ==
  /\ Cardinality(orders) = 2
  /\ \A o \in orders : o.items[1].price # price[o.items[1].product]

\* C23: at most one StoreSettings document exists in every reachable state,
\* concurrent first calls of getStoreSettings included, and exactly one
\* exists once a call of getStoreSettings has completed.
C23_SingleSettings ==
  /\ Len(storeSettings) <= 1
  /\ (patches > 0 \/ \E p \in Procs : procs[p].sid > 0)
       => Len(storeSettings) = 1

\* C24: a confirmation whose input is invalid (payment ids missing, no item,
\* an item quantity below 1, a negative total, no user) changes nothing: as
\* long as it is the only confirmation received, the settings counter, the
\* orders, the discount codes, the stock and the carts are the initial ones.
InvalidInput(body) ==
  \/ body.razorpayPaymentId = 0
  \/ body.razorpayOrderId = 0
  \/ Len(body.items) = 0
  \/ \E i \in 1..Len(body.items) : body.items[i].quantity < 1
  \/ body.total < 0
  \/ body.userId = Null

C24_InvalidInputChangesNothing ==
  (started = 1 /\ InvalidInput(procs[1].body))
    => /\ TotalOrders = 0
       /\ orders = {}
       /\ UsedCodes = {} /\ Len(discountCodes) = 1
       /\ stock \in InitStocks
       /\ carts = [u \in Users |-> IF u = "u1" THEN QuotedCart ELSE NoCart]

\* C25: an inactive product cannot be purchased: no step adds units of it to
\* a cart, no quote is issued for a cart holding it, and no confirmation
\* creates an order for it or decrements its stock while it is inactive.
UnitsInCart(cart, p) ==
  IF FindItemIndex(cart.items, p) = 0 THEN 0
  ELSE cart.items[FindItemIndex(cart.items, p)].quantity

InactiveUnpurchasable ==
  /\ \A u \in Users, p \in Products :
       UnitsInCart(carts'[u], p) > UnitsInCart(carts[u], p) => isActive[p]
  /\ \A u \in Users :
       quotes'[u] # quotes[u] =>
         \A i \in 1..Len(quotes'[u][1].items) :
           isActive[quotes'[u][1].items[i].product]
  /\ \A o \in orders' \ orders :
       \A i \in 1..Len(o.items) : isActive[o.items[i].product]
  /\ \A p \in Products : stock'[p] < stock[p] => isActive[p]

C25_InactiveUnpurchasable == [][InactiveUnpurchasable]_vars

\* C26: a confirmation acts for its caller only: every order is attributed
\* to the client that sent the confirmation, every code redeemed by a
\* confirmation records that client as its user, and the cart of a user who
\* sent no confirmation is never cleared.
C26_ActsForCallerOnly ==
  /\ \A o \in orders : o.user = Sender(o.paymentId)
  /\ \A p \in Procs :
       (procs[p].pc \in {"stock", "mint", "done"} /\ procs[p].resp # 400
          /\ procs[p].resp # 500 /\ procs[p].body.discountCode # 0)
         => discountCodes[CodeIndex(procs[p].body.discountCode)].usedBy
              = Sender(procs[p].body.razorpayOrderId)
  /\ \A u \in Users :
       (\A p \in Procs : procs[p].pc # "idle" =>
                           Sender(procs[p].body.razorpayOrderId) # u)
         => carts[u] = IF u = "u1" THEN QuotedCart ELSE OtherCart

\* C27: a request to an admin handler (settings read or update, discount
\* list, generation, update or deletion, statistics) made with a session
\* whose role is not admin is answered 403 and leaves the settings and the
\* discount codes unchanged.
NonAdminRefused ==
  \A session \in Sessions :
    (session.role # "admin" /\ AdminRequest(session)) =>
      /\ Len(log') = Len(log) + 1
      /\ log'[Len(log')].status = 403
      /\ log'[Len(log')].user = session.id
      /\ storeSettings' = storeSettings
      /\ discountCodes' = discountCodes

C27_NonAdminRefused == [][NonAdminRefused]_vars

\* A customer was refused and an administrator generated a code.
C27_Witness ==
  /\ \E i \in 1..Len(log) : log[i].status = 403 /\ log[i].user = "u1"
  /\ \E i \in 1..Len(log) :
       log[i].op = "generateDiscount" /\ log[i].status = 200

\* C28: POST /api/checkout returns a quote and creates a remote payment
\* order exactly when the caller's cart is non-empty, every product in it is
\* active and every quantity is at most the current stock, and rejects the
\* request otherwise; in both cases products, carts, discount codes, orders
\* and settings are unchanged.
Purchasable(cart) ==
  /\ cart.exists
  /\ Len(cart.items) > 0
  /\ \A i \in 1..Len(cart.items) :
       /\ isActive[cart.items[i].product]
       /\ cart.items[i].quantity <= stock[cart.items[i].product]

QuoteIffPurchasable ==
  (Len(log') = Len(log) + 1 /\ log'[Len(log')].op = "checkout") =>
    LET e == log'[Len(log')]
    IN /\ (e.status = 200) <=> Purchasable(carts[e.user])
       /\ e.status = 200 =>
            /\ remoteOrders' = remoteOrders + 1
            /\ quotes'[e.user] # <<>>
            /\ quotes'[e.user][1].razorpayOrderId = remoteOrders'
       /\ e.status # 200 => (quotes' = quotes /\ remoteOrders' = remoteOrders)
       /\ dbVars' = dbVars
       /\ price' = price

C28_QuoteIffPurchasable == [][QuoteIffPurchasable]_vars

\* One quote was returned and one request was rejected for lack of stock.
C28_Witness ==
  /\ \E i \in 1..Len(log) : log[i].op = "checkout" /\ log[i].status = 200
  /\ \E i \in 1..Len(log) : log[i].op = "checkout" /\ log[i].error = "stock"

\* C29: after every add-to-cart, update-quantity and remove-item step each
\* cart has at most one line per product and every line holds at least one
\* unit; adding q units of a product that has a line leaves the number of
\* lines as it was and raises that line's quantity by q.
LinesOf(cart, p) == {i \in 1..Len(cart.items) : cart.items[i].product = p}

CartLinesKept ==
  /\ \A u \in Users, p \in Products :
       /\ Cardinality(LinesOf(carts'[u], p)) <= 1
       /\ \A i \in LinesOf(carts'[u], p) : carts'[u].items[i].quantity >= 1
  /\ \A u \in Users, p \in Products, q \in 0..(MaxAdd + 1) :
       (CartPost(u, p, q) /\ LinesOf(carts[u], p) # {}) =>
         /\ Len(carts'[u].items) = Len(carts[u].items)
         /\ \A i \in LinesOf(carts[u], p) :
              carts'[u].items[i].quantity = carts[u].items[i].quantity + q

C29_CartLinesKept == [][CartLinesKept]_vars

\* A line that was added to twice: it holds more units than one request
\* can add.
C29_Witness ==
  \E u \in Users :
    /\ Len(carts[u].items) = 1
    /\ carts[u].items[1].quantity > MaxAdd

\* C30: across every interleaving of connectDB calls, a connection attempt
\* is started only while no connection is established and no attempt is
\* pending, so at most one attempt is in flight at any time.
C30_OneAttemptInFlight == Cardinality(InFlight) <= 1

\* A call starts an attempt only when the cache holds neither a connection
\* nor a promise.
StartsOnEmptyCache ==
  Len(attempts') > Len(attempts) => cached.conn = 0 /\ cached.promise = 0

C30_StartsOnEmptyCache == [][StartsOnEmptyCache]_vars

\* A call that throws leaves cached.promise reset.
ResetOnFailure ==
  (\E c \in Callers : calls[c] # "thrown" /\ calls'[c] = "thrown") =>
    cached'.promise = 0

C30_ResetOnFailure == [][ResetOnFailure]_vars

\* A second attempt was started after the first one failed.
C30_Retried ==
  /\ Len(attempts) >= 2
  /\ attempts[1] = "rejected"
====
